---------------------------- MODULE Spec2Model ----------------------------
(***************************************************************************)
(* A model of lua/types.h: the conversion traits Type<T>::Push / To        *)
(* between native values and the slots of the Lua stack.  The runtime's    *)
(* primitives (lua_next, lua_tostring, lua_tointegerx, ...) follow the     *)
(* Lua 5.3 reference manual.                                               *)
(*                                                                         *)
(* Lua values are tagged records.  A number is either an integer           *)
(* (lua_Integer) or a float (lua_Number); a float is held as a count of    *)
(* halves, so 1.5 is LFlt(3) and 2.0 is LFlt(4).  A string is a sequence   *)
(* of bytes, the byte 0 written NUL.  A table is the sequence of its       *)
(* <<key, value>> pairs in the order lua_next yields them.                 *)
(*                                                                         *)
(* Native values: int and uint32_t are integers, float and double are      *)
(* counts of halves, bool is a BOOLEAN, std::string is a sequence of       *)
(* bytes, std::vector is a sequence, std::map is a function.               *)
(***************************************************************************)
EXTENDS Integers, Sequences, FiniteSets, TLC

VARIABLES stack, contract, last

vars == <<stack, contract, last>>

\* The width of the C types, scaled down: int and uint32_t have IntBits
\* bits, lua_Integer and size_t have LuaIntBits bits.
IntBits == 4
LuaIntBits == 6
\* The largest stack the model builds.
MaxStack == 2

RECURSIVE Pow2(_)
Pow2(n) == IF n = 0 THEN 1 ELSE 2 * Pow2(n - 1)

INT_MAX == Pow2(IntBits - 1) - 1
INT_MIN == 0 - Pow2(IntBits - 1)
UINT_MAX == Pow2(IntBits) - 1
IntRange == INT_MIN .. INT_MAX
LUA_MAXINTEGER == Pow2(LuaIntBits - 1) - 1
LUA_MININTEGER == 0 - Pow2(LuaIntBits - 1)

\* Conversion of an integer to int (two's complement wrap) and to uint32_t.
ToInt(n) == ((n - INT_MIN) % Pow2(IntBits)) + INT_MIN
ToUint32(n) == n % Pow2(IntBits)
\* Conversion of a signed value to size_t and back to int.
ToSizeT(n) == n % Pow2(LuaIntBits)

---------------------------------------------------------------------------
\* Lua values.
NUL == "NUL"
LNil == [t |-> "nil"]
LBool(b) == [t |-> "boolean", b |-> b]
LInt(n) == [t |-> "number", sub |-> "int", n |-> n]
LFlt(h) == [t |-> "number", sub |-> "flt", n |-> h]
LStr(s) == [t |-> "string", s |-> s]
LTab(p) == [t |-> "table", p |-> p]
LNone == [t |-> "none"]

\* The value of a number in halves.
Halves(v) == IF v.sub = "int" THEN 2 * v.n ELSE v.n

\* Primitive equality of two Lua values (numbers by value).
RawEqual(a, b) ==
  /\ a.t = b.t
  /\ CASE a.t = "number" -> Halves(a) = Halves(b)
       [] a.t = "boolean" -> a.b = b.b
       [] a.t = "string" -> a.s = b.s
       [] a.t = "table" -> a.p = b.p
       [] OTHER -> TRUE

\* index2addr: the slot a valid index names, or LNone above the top.
AbsIndex(st, index) == IF index > 0 THEN index ELSE Len(st) + 1 + index
At(st, index) ==
  IF AbsIndex(st, index) \in 1 .. Len(st) THEN st[AbsIndex(st, index)] ELSE LNone

GetType(st, index) == At(st, index).t

Pop(st, n) == SubSeq(st, 1, Len(st) - n)

---------------------------------------------------------------------------
\* Numbers and strings: lua_Number2str / lua_Integer2str and l_strton.
DigitChars == <<"0", "1", "2", "3", "4", "5", "6", "7", "8", "9">>
IsDigit(c) == \E d \in 1 .. 10 : DigitChars[d] = c
DigitOf(c) == (CHOOSE d \in 1 .. 10 : DigitChars[d] = c) - 1

RECURSIVE Decimal(_)
Decimal(n) ==
  IF n < 10 THEN <<DigitChars[n + 1]>>
  ELSE Append(Decimal(n \div 10), DigitChars[(n % 10) + 1])

Abs(n) == IF n < 0 THEN 0 - n ELSE n
Sign(n) == IF n < 0 THEN <<"-">> ELSE <<>>

\* "%d" of an integer; "%.14g" of a float, with ".0" added when the result
\* looks like an integer.
IntegerToStr(n) == Sign(n) \o Decimal(Abs(n))
NumberToStr(h) ==
  Sign(h) \o Decimal(Abs(h) \div 2) \o (IF h % 2 = 0 THEN <<".", "0">> ELSE <<".", "5">>)
tostringbuff(v) == IF v.sub = "int" THEN IntegerToStr(v.n) ELSE NumberToStr(v.n)

RECURSIVE DecimalValue(_)
DecimalValue(s) ==
  IF s = <<>> THEN 0
  ELSE 10 * DecimalValue(SubSeq(s, 1, Len(s) - 1)) + DigitOf(s[Len(s)])

AllDigits(s) == s # <<>> /\ \A i \in 1 .. Len(s) : IsDigit(s[i])
AllZeros(s) == \A i \in 1 .. Len(s) : s[i] = "0"

\* l_strton on the bytes of a string: [ok, v].  The numerals read are an
\* optional '-', decimal digits and an optional fraction; the model's strings
\* hold only fractions that are a whole number of halves.  A string with an
\* embedded NUL is no numeral (the conversion must consume the whole string).
l_strton(s) ==
  LET neg == s # <<>> /\ s[1] = "-"
      body == IF neg THEN Tail(s) ELSE s
      dots == {i \in 1 .. Len(body) : body[i] = "."}
      sgn == IF neg THEN 0 - 1 ELSE 1
  IN IF AllDigits(body)
       THEN [ok |-> TRUE, v |-> LInt(sgn * DecimalValue(body))]
     ELSE IF Cardinality(dots) = 1
       THEN LET d == CHOOSE i \in dots : TRUE
                ip == SubSeq(body, 1, d - 1)
                fp == SubSeq(body, d + 1, Len(body))
            IN IF /\ (ip # <<>> \/ fp # <<>>)
                  /\ \A i \in 1 .. Len(ip) : IsDigit(ip[i])
                  /\ \/ AllZeros(fp)
                     \/ (fp # <<>> /\ fp[1] = "5" /\ AllZeros(Tail(fp)))
                 THEN [ok |-> TRUE,
                       v |-> LFlt(sgn * (2 * DecimalValue(ip)
                                        + (IF AllZeros(fp) THEN 0 ELSE 1)))]
                 ELSE [ok |-> FALSE, v |-> LNil]
     ELSE [ok |-> FALSE, v |-> LNil]

\* cvt2num: a number as it is, a string through l_strton.
ToNumberValue(v) ==
  CASE v.t = "number" -> [ok |-> TRUE, v |-> v]
    [] v.t = "string" -> l_strton(v.s)
    [] OTHER -> [ok |-> FALSE, v |-> LNil]

\* lua_tointegerx: [ok, n].  An integer, a float with an exact integer value
\* in lua_Integer's range, or a string that converts to one; 0 otherwise.
lua_tointegerx(st, index) ==
  LET c == ToNumberValue(At(st, index))
  IN IF ~c.ok THEN [ok |-> FALSE, n |-> 0]
     ELSE IF c.v.sub = "int" THEN [ok |-> TRUE, n |-> c.v.n]
     ELSE IF c.v.n % 2 = 0 /\ c.v.n \div 2 \in LUA_MININTEGER .. LUA_MAXINTEGER
       THEN [ok |-> TRUE, n |-> c.v.n \div 2]
     ELSE [ok |-> FALSE, n |-> 0]

lua_tointeger(st, index) == lua_tointegerx(st, index).n

\* lua_tonumberx: [ok, h], the double in halves.
lua_tonumberx(st, index) ==
  LET c == ToNumberValue(At(st, index))
  IN IF c.ok THEN [ok |-> TRUE, h |-> Halves(c.v)] ELSE [ok |-> FALSE, h |-> 0]

lua_isboolean(st, index) == GetType(st, index) = "boolean"
lua_toboolean(st, index) ==
  LET v == At(st, index)
  IN IF v.t = "nil" \/ v.t = "none" THEN 0
     ELSE IF v.t = "boolean" /\ ~v.b THEN 0 ELSE 1

\* lua_tostring (lua_tolstring with no length): [ok, s, st].  A number slot
\* is converted to a string in place; s is the internal copy of the bytes.
lua_tostring(st, index) ==
  LET v == At(st, index)
  IN CASE v.t = "string" -> [ok |-> TRUE, s |-> v.s, st |-> st]
       [] v.t = "number" ->
            [ok |-> TRUE, s |-> tostringbuff(v),
             st |-> [st EXCEPT ![AbsIndex(st, index)] = LStr(tostringbuff(v))]]
       [] OTHER -> [ok |-> FALSE, s |-> <<>>, st |-> st]

\* The std::string built from a const char*: the bytes before the first NUL.
RECURSIVE CStr(_)
CStr(s) ==
  IF s = <<>> \/ s[1] = NUL THEN <<>> ELSE <<s[1]>> \o CStr(Tail(s))

\* The conversion of a double (in halves) to int: truncation toward zero.
Trunc(h) == IF h >= 0 THEN h \div 2 ELSE 0 - ((0 - h) \div 2)

---------------------------------------------------------------------------
\* The native types: the specializations of Type<T>.
TInt == [c |-> "int"]
TUint32 == [c |-> "uint32_t"]
TFloat == [c |-> "float"]
TDouble == [c |-> "double"]
TBool == [c |-> "bool"]
TString == [c |-> "string"]
TVector(T) == [c |-> "vector", e |-> T]
TMap(K, V) == [c |-> "map", k |-> K, v |-> V]

\* A default-constructed object of a native type (T value; K key; V value;).
\* For a scalar the object is indeterminate and is only read after To has
\* assigned it.
Default(T) ==
  CASE T.c \in {"int", "uint32_t", "float", "double"} -> 0
    [] T.c = "bool" -> FALSE
    [] OTHER -> <<>>

\* What a call of To leaves: the value returned, the destination object and
\* the stack.  exc is "none" when the call returned; otherwise the call did
\* not return: a Lua error was raised ("error"), the process died ("crash")
\* or the traversal never ends ("hang").
Returned(r, o, st) == [ret |-> r, exc |-> "none", out |-> o, st |-> st]
Abnormal(e, o, st) == [ret |-> FALSE, exc |-> e, out |-> o, st |-> st]

\* Type<int>::To
Type_int_To(st, index, out) ==
  LET r == lua_tointegerx(st, index)
      ret == ToInt(r.n)
  IN {Returned(r.ok, IF r.ok THEN ret ELSE out, st)}

\* Type<uint32_t>::To
Type_uint32_t_To(st, index, out) ==
  LET r == lua_tointegerx(st, index)
      ret == ToInt(r.n)
  IN {Returned(r.ok, IF r.ok THEN ToUint32(ret) ELSE out, st)}

\* Type<float>::To
Type_float_To(st, index, out) ==
  LET r == lua_tonumberx(st, index)
      ret == r.h
  IN {Returned(r.ok, IF r.ok THEN ret ELSE out, st)}

\* The int a double outside int's range converts to.  The conversion is
\* undefined: builds yield INT_MIN (the x86 "integer indefinite"), the
\* nearest end of the range (saturating conversion) or the low bits of the
\* wider integer.
UndefinedInt(n) == {INT_MIN, IF n < 0 THEN INT_MIN ELSE INT_MAX, ToInt(n)}

\* Type<double>::To.  The number read is stored in an int before it is
\* assigned to *out.
Type_double_To(st, index, out) ==
  LET r == lua_tonumberx(st, index)
      rets == IF Trunc(r.h) \in IntRange THEN {Trunc(r.h)}
              ELSE UndefinedInt(Trunc(r.h))
  IN IF r.ok THEN {Returned(TRUE, 2 * ret, st) : ret \in rets}
     ELSE {Returned(FALSE, out, st)}

\* Type<bool>::To without the lua_isboolean test: the runtime's truthiness.
Type_bool_To_Truthy(st, index, out) ==
  {Returned(TRUE, lua_toboolean(st, index) # 0, st)}

\* Type<bool>::To
Type_bool_To(st, index, out) ==
  IF ~lua_isboolean(st, index) THEN {Returned(FALSE, out, st)}
  ELSE {Returned(TRUE, lua_toboolean(st, index) # 0, st)}

\* Type<std::string>::To (Type<base::StringPiece>::To and
\* Type<const char*>::To read the slot the same way).
Type_string_To(st, index, out) ==
  LET r == lua_tostring(st, index)
  IN IF ~r.ok THEN {Returned(FALSE, out, st)}
     ELSE {Returned(TRUE, CStr(r.s), r.st)}

\* lua_next: the table is found at index while the key is still on the stack;
\* the key is popped and the pair after it is pushed.  pos is the place of
\* the pair in the traversal.
lua_next(st, index) ==
  LET t == At(st, index)
      key == st[Len(st)]
      found == {i \in 1 .. Len(t.p) : RawEqual(t.p[i][1], key)}
      pos == IF key.t = "nil" THEN 0 ELSE CHOOSE i \in found : TRUE
  IN IF t.t # "table" THEN [kind |-> "undefined", st |-> st, pos |-> 0]
     ELSE IF key.t # "nil" /\ found = {}
       THEN [kind |-> "error", st |-> st, pos |-> 0]
     ELSE IF pos = Len(t.p) THEN [kind |-> "end", st |-> Pop(st, 1), pos |-> 0]
     ELSE [kind |-> "more", pos |-> pos + 1,
           st |-> Pop(st, 1) \o <<t.p[pos + 1][1], t.p[pos + 1][2]>>]

\* StackAutoReset: the height top is recorded at construction, and on every
\* return of the scope lua_settop restores it.  A call that does not return
\* leaves the stack as it is.
StackAutoReset(top, outcomes) ==
  {IF o.exc = "none" THEN [o EXCEPT !.st = SubSeq(o.st, 1, top)] ELSE o
   : o \in outcomes}

\* The element count the sequence traversal compares each key with.
ExpectedKey(out) == ToInt(ToSizeT(Len(out) - 1))

\* (*out)[key] = value
MapSet(out, key, value) ==
  [k \in DOMAIN out \cup {key} |-> IF k = key THEN value ELSE out[k]]

RECURSIVE To(_, _, _, _), VectorLoop(_, _, _, _), MapLoop(_, _, _, _, _)

\* The while loop of Type<std::vector<T>>::To, entered with the traversal
\* key on top of the stack.
VectorLoop(T, st, index, out) ==
  LET n == lua_next(st, index)
  IN CASE n.kind = "undefined" ->
            {Abnormal("crash", out, st), Returned(TRUE, out, st)}
       [] n.kind = "error" -> {Abnormal("error", out, n.st)}
       [] n.kind = "end" -> {Returned(TRUE, out, n.st)}
       [] OTHER ->
            IF \/ GetType(n.st, 0 - 2) # "number"
               \/ lua_tointeger(n.st, 0 - 2) # ExpectedKey(out)
              THEN {Returned(FALSE, out, n.st)}
              ELSE UNION {
                     IF o.exc # "none" THEN {Abnormal(o.exc, out, o.st)}
                     ELSE IF ~o.ret
                       THEN {Returned(FALSE, out, o.st)}
                     ELSE VectorLoop(T, Pop(o.st, 1), index, Append(out, o.out))
                     : o \in To(T, n.st, 0 - 1, Default(T))}

\* Type<std::vector<T>>::To without the StackAutoReset.
Type_vector_To_NoReset(T, st, index, out) ==
  IF GetType(st, index) # "table" THEN {Returned(FALSE, out, st)}
  ELSE VectorLoop(T, Append(st, LNil), index, out)

\* Type<std::vector<T>>::To
Type_vector_To(T, st, index, out) ==
  IF GetType(st, index) # "table" THEN {Returned(FALSE, out, st)}
  ELSE StackAutoReset(Len(st), VectorLoop(T, Append(st, LNil), index, out))

\* The while loop of Type<std::map<K, V>>::To.  seen holds the places of the
\* traversal already visited: the loop reads only the stack and the table,
\* so a place visited twice is visited for ever.
MapLoop(T, st, index, out, seen) ==
  LET n == lua_next(st, index)
  IN CASE n.kind = "undefined" ->
            {Abnormal("crash", out, st), Returned(TRUE, out, st)}
       [] n.kind = "error" -> {Abnormal("error", out, n.st)}
       [] n.kind = "end" -> {Returned(TRUE, out, n.st)}
       [] n.pos \in seen -> {Abnormal("hang", out, n.st)}
       [] OTHER ->
            UNION {
              IF ko.exc # "none" THEN {Abnormal(ko.exc, out, ko.st)}
              ELSE IF ~ko.ret
                THEN {Returned(FALSE, out, ko.st)}
              ELSE UNION {
                     IF vo.exc # "none" THEN {Abnormal(vo.exc, out, vo.st)}
                     ELSE IF ~vo.ret
                       THEN {Returned(FALSE, out, vo.st)}
                     ELSE MapLoop(T, Pop(vo.st, 1), index,
                                  MapSet(out, ko.out, vo.out),
                                  seen \cup {n.pos})
                     : vo \in To(T.v, ko.st, 0 - 1, Default(T.v))}
              : ko \in To(T.k, n.st, 0 - 2, Default(T.k))}

\* Type<std::map<K, V>>::To
Type_map_To(T, st, index, out) ==
  IF GetType(st, index) # "table" THEN {Returned(FALSE, out, st)}
  ELSE StackAutoReset(Len(st), MapLoop(T, Append(st, LNil), index, out, {}))

\* Type<T>::To, by the specialization of T.
To(T, st, index, out) ==
  CASE T.c = "int" -> Type_int_To(st, index, out)
    [] T.c = "uint32_t" -> Type_uint32_t_To(st, index, out)
    [] T.c = "float" -> Type_float_To(st, index, out)
    [] T.c = "double" -> Type_double_To(st, index, out)
    [] T.c = "bool" -> Type_bool_To(st, index, out)
    [] T.c = "string" -> Type_string_To(st, index, out)
    [] T.c = "vector" -> Type_vector_To(T.e, st, index, out)
    [] T.c = "map" -> Type_map_To(T, st, index, out)

---------------------------------------------------------------------------
\* Push.  A table key that is a float with an integer value is stored as
\* that integer (lua_rawset).
NormKey(k) ==
  IF k.t = "number" /\ k.sub = "flt" /\ k.n % 2 = 0 THEN LInt(k.n \div 2) ELSE k

RECURSIVE PushValues(_, _), VectorTables(_, _), MapTables(_, _, _)

\* Type<std::vector<T>>::Push: NewTable, then RawSet(state, -1, i + 1, vec[i])
\* for each element in turn.  The keys fill the array part, which lua_next
\* yields in order.
VectorTables(T, vec) ==
  IF vec = <<>> THEN {<<>>}
  ELSE {Append(p, <<LInt(Len(vec)), x>>) :
          p \in VectorTables(T, SubSeq(vec, 1, Len(vec) - 1)),
          x \in PushValues(T, vec[Len(vec)])}

\* Type<std::map<K, V>>::Push: NewTable, then RawSet(state, -1, key, value)
\* for each entry.  The keys fill the hash part, which lua_next yields in an
\* order of the runtime's choosing.
MapTables(T, dict, keys) ==
  IF keys = {} THEN {<<>>}
  ELSE UNION {
         {<<(<<NormKey(k), x>>)>> \o rest :
            k \in PushValues(T.k, key),
            x \in PushValues(T.v, dict[key]),
            rest \in MapTables(T, dict, keys \ {key})}
         : key \in keys}

\* Type<T>::Push(state, v): the values the call may leave on top of the stack.
PushValues(T, v) ==
  CASE T.c \in {"int", "uint32_t"} -> {LInt(v)}
    [] T.c \in {"float", "double"} -> {LFlt(v)}
    [] T.c = "bool" -> {LBool(v)}
    [] T.c = "string" -> {LStr(v)}
    [] T.c = "vector" -> {LTab(p) : p \in VectorTables(T.e, v)}
    [] T.c = "map" -> {LTab(p) : p \in MapTables(T, v, DOMAIN v)}

---------------------------------------------------------------------------
\* The inputs.
ScalarTypes == {TInt, TUint32, TFloat, TDouble, TBool, TString}
SequenceTypes == {TVector(TInt), TVector(TString)}
MappingTypes == {TMap(TString, TInt), TMap(TInt, TString), TMap(TString, TDouble)}

\* A number above int's range that lua_Integer holds.
BigInteger == Pow2(IntBits) + 5

A == <<"a">>
B == <<"b">>

\* The native values pushed.
NativeValues(T) ==
  CASE T = TInt -> {INT_MIN, 0}
    [] T = TUint32 -> {UINT_MAX}
    [] T = TFloat -> {3}
    [] T = TDouble -> {3}
    [] T = TBool -> {TRUE, FALSE}
    [] T = TString -> {<<>>, <<"a", NUL, "b">>}
    [] T = TVector(TInt) -> {<<>>, <<5>>, <<5, 6>>}
    [] T = TVector(TString) -> {<<>>, <<A>>, <<A, B>>}
    [] T = TMap(TString, TInt) -> {<<>>, [k \in {A} |-> 1], [k \in {A, B} |-> Len(k) + 1]}
    [] T = TMap(TInt, TString) -> {<<>>, [k \in {2} |-> A], [k \in {1, 2} |-> A]}
    [] T = TMap(TString, TDouble) -> {<<>>, [k \in {A} |-> 4], [k \in {A} |-> 3]}

\* The native values pushed where every type is in play.
MixedTypes ==
  {TInt, TString, TVector(TInt), TMap(TString, TInt),
   TVector(TVector(TInt)), TMap(TString, TVector(TInt))}
MixedValues(T) ==
  CASE T = TInt -> {1}
    [] T = TString -> {A}
    [] T = TVector(TInt) -> {<<>>, <<5>>}
    [] T = TMap(TString, TInt) -> {[k \in {A} |-> 1]}
    [] T = TVector(TVector(TInt)) -> {<<(<<5>>)>>}
    [] T = TMap(TString, TVector(TInt)) -> {[k \in {A} |-> <<5>>]}

\* The destination objects handed to To: empty ones, and ones that hold
\* earlier contents.
Destinations(T) ==
  CASE T.c \in {"int", "uint32_t"} -> {2}
    [] T.c \in {"float", "double"} -> {5}
    [] T.c = "bool" -> {TRUE}
    [] T.c = "string" -> {<<"z">>}
    [] T = TVector(TInt) -> {<<>>, <<8, 9>>}
    [] T = TMap(TString, TInt) -> {<<>>, [k \in {<<"z">>} |-> 9]}
    [] OTHER -> {<<>>}

\* The values a script leaves on the stack.
ScalarSlots == {LNil, LInt(BigInteger), LStr(<<"1", "0">>)}

SequenceSlots ==
  {LTab(<<(<<LInt(1), LInt(5)>>), <<LInt(3), LInt(6)>>>>),
   LTab(<<(<<LInt(3), LInt(6)>>), <<LInt(1), LInt(5)>>>>),
   LTab(<<(<<LInt(1), LInt(5)>>), <<LStr(A), LInt(6)>>>>),
   LTab(<<(<<LStr(A), LInt(6)>>), <<LInt(1), LInt(5)>>>>),
   LTab(<<(<<LInt(0 - 1), LInt(5)>>)>>),
   LTab(<<(<<LInt(1), LInt(5)>>), <<LInt(2), LStr(A)>>>>),
   LTab(<<(<<LInt(2), LInt(6)>>), <<LInt(1), LInt(5)>>>>),
   LInt(1)}

MappingSlots ==
  {LTab(<<(<<LStr(A), LInt(1)>>), <<LStr(B), LStr(A)>>>>),
   LTab(<<(<<LStr(A), LInt(1)>>), <<LBool(TRUE), LInt(2)>>>>),
   LTab(<<(<<LInt(1), LInt(5)>>), <<LInt(2), LInt(6)>>>>),
   LTab(<<(<<LStr(<<"1">>), LInt(5)>>), <<LInt(1), LInt(6)>>>>),
   LStr(A)}

MixedSlots ==
  {LNil,
   LTab(<<(<<LInt(0 - 1), LInt(5)>>)>>),
   LTab(<<(<<LInt(0 - 1), LStr(A)>>)>>)}

---------------------------------------------------------------------------
\* The state: the Lua stack, the height the calls made so far promise
\* (one slot for each Push, none for a To), and the last call with what it
\* was given and what it left.
Init ==
  /\ stack = <<>>
  /\ contract = 0
  /\ last = [op |-> "none", exc |-> "none"]

\* A call that raised an error, died or hangs has not returned.
Running == last.exc = "none"

\* Type<T>::Push(state, v)
CallPush(T, v) ==
  /\ Running
  /\ Len(stack) < MaxStack
  /\ \E x \in PushValues(T, v) : stack' = Append(stack, x)
  /\ contract' = contract + 1
  /\ last' = [op |-> "Push", exc |-> "none"]

\* A value the script left for the native side to read.
ScriptPush(x) ==
  /\ Running
  /\ Len(stack) < MaxStack
  /\ stack' = Append(stack, x)
  /\ contract' = contract + 1
  /\ last' = [op |-> "script", exc |-> "none"]

\* Type<T>::To(state, index, &out), out holding out0 before the call.
CallTo(T, index, out0) ==
  /\ Running
  /\ AbsIndex(stack, index) \in 1 .. Len(stack)
  /\ index # 0
  /\ \E o \in To(T, stack, index, out0) :
       /\ stack' = o.st
       /\ last' = [op |-> "To", T |-> T, index |-> index, pre |-> stack,
                   out0 |-> out0, ret |-> o.ret, exc |-> o.exc, out |-> o.out]
  /\ UNCHANGED contract

Positive == 1 .. MaxStack
Indices == (1 .. MaxStack) \cup {0 - i : i \in 1 .. MaxStack}

\* Scalars.
NextScalar ==
  \/ \E T \in ScalarTypes : \E v \in NativeValues(T) : CallPush(T, v)
  \/ \E x \in ScalarSlots : ScriptPush(x)
  \/ \E T \in ScalarTypes : \E i \in Indices : \E d \in Destinations(T) :
       CallTo(T, i, d)

SpecScalar == Init /\ [][NextScalar]_vars

\* Sequences.
NextSequence ==
  \/ \E T \in SequenceTypes : \E v \in NativeValues(T) : CallPush(T, v)
  \/ \E x \in SequenceSlots : ScriptPush(x)
  \/ \E T \in SequenceTypes : \E i \in Positive : \E d \in Destinations(T) :
       CallTo(T, i, d)

SpecSequence == Init /\ [][NextSequence]_vars

\* Mappings.
NextMapping ==
  \/ \E T \in MappingTypes : \E v \in NativeValues(T) : CallPush(T, v)
  \/ \E x \in MappingSlots : ScriptPush(x)
  \/ \E T \in MappingTypes : \E i \in Positive : \E d \in Destinations(T) :
       CallTo(T, i, d)

SpecMapping == Init /\ [][NextMapping]_vars

\* Every kind of type, at both kinds of index.
Next ==
  \/ \E T \in MixedTypes : \E v \in MixedValues(T) : CallPush(T, v)
  \/ \E x \in MixedSlots : ScriptPush(x)
  \/ \E T \in MixedTypes : \E i \in Indices : \E d \in Destinations(T) :
       CallTo(T, i, d)

Spec == Init /\ [][Next]_vars

---------------------------------------------------------------------------
\* The properties.

\* The slot the last To call was asked to read, as it was before the call.
Slot == last.pre[AbsIndex(last.pre, last.index)]

CalledTo == last.op = "To"

\* The last To call was given the slot a Push of v produces, and it returned
\* true with *out = v.
ReadsBack(v) ==
  Slot \in PushValues(last.T, v) =>
    last.exc = "none" /\ last.ret /\ last.out = v

\* C1: a sequence pushed by Type<vector<T>>::Push and read by
\* Type<vector<T>>::To into an empty vector comes back: To returns true and
\* the vector holds the same elements in the same order.
SequenceRoundTrip ==
  (CalledTo /\ last.T \in SequenceTypes /\ last.out0 = <<>>) =>
    \A v \in NativeValues(last.T) : ReadsBack(v)

\* C2: a mapping pushed by Type<map<K, V>>::Push and read by
\* Type<map<K, V>>::To into an empty map comes back with the same pairs,
\* in whatever order the table is traversed.
MappingRoundTrip ==
  (CalledTo /\ last.T \in MappingTypes /\ last.out0 = <<>>) =>
    \A v \in NativeValues(last.T) : ReadsBack(v)

\* C3: a scalar pushed by Type<T>::Push and read by Type<T>::To comes back:
\* To returns true and *out is the value pushed.
ScalarRoundTrip ==
  (CalledTo /\ last.T \in ScalarTypes) =>
    \A v \in NativeValues(last.T) : ReadsBack(v)

\* C4: after any calls that returned, the stack is one slot higher for each
\* Push and no higher for any To, whether the To returned true or false.
StackNeutral == Running => Len(stack) = contract

\* C4, witness: a container To that returned false from inside the traversal
\* of a table with entries, with the stack at the promised height.
StackNeutralWitness ==
  /\ CalledTo
  /\ last.T.c \in {"vector", "map"}
  /\ Slot.t = "table"
  /\ Slot.p # <<>>
  /\ last.exc = "none"
  /\ ~last.ret
  /\ Len(stack) = contract

\* The dynamic type the policy table requires for a scalar type.
RequiredType(T) ==
  CASE T.c \in {"int", "uint32_t", "float", "double"} -> "number"
    [] T.c = "bool" -> "boolean"
    [] T.c = "string" -> "string"

\* The dynamic types a scalar To reads: the required one, and for numbers and
\* strings the one the runtime coerces to it.
AcceptedTypes(T) ==
  IF T.c = "bool" THEN {"boolean"} ELSE {"number", "string"}

\* No truthiness: bool fails on the number 0 and on the empty string, and
\* reads the boolean false as false.
BoolStrict ==
  (CalledTo /\ last.T = TBool) =>
    /\ (Slot.t = "number" /\ Halves(Slot) = 0) => ~last.ret
    /\ (Slot.t = "string" /\ Slot.s = <<>>) => ~last.ret
    /\ (Slot.t = "boolean" /\ ~Slot.b) => (last.ret /\ last.out = FALSE)

\* C5, as stated: a scalar To on a slot whose dynamic type is not the one
\* required for T returns false and leaves *out as it was; bool does not
\* coerce truthiness.
ScalarMismatchFails ==
  /\ (CalledTo /\ last.T \in ScalarTypes /\ Slot.t # RequiredType(last.T)) =>
       (~last.ret /\ last.out = last.out0)
  /\ BoolStrict

\* C5, amended: a scalar To on a slot whose dynamic type is neither the one
\* required for T nor, for the numeric and string types, the other of number
\* and string returns false and leaves *out as it was; bool does not coerce
\* truthiness.
ScalarMismatchCoerced ==
  /\ (CalledTo /\ last.T \in ScalarTypes /\ Slot.t \notin AcceptedTypes(last.T)) =>
       (~last.ret /\ last.out = last.out0)
  /\ BoolStrict

\* C5, witness: bool asked of the number 0 returned false and the earlier
\* contents of the destination survived.
ScalarMismatchWitness ==
  /\ CalledTo
  /\ last.T = TBool
  /\ Slot.t = "number"
  /\ Halves(Slot) = 0
  /\ ~last.ret
  /\ last.out0 = TRUE
  /\ last.out = TRUE

\* C6: whenever To returns false, *out is what it was before the call.
NoPartialOutput ==
  (CalledTo /\ last.exc = "none" /\ ~last.ret) => last.out = last.out0

\* The keys of a table are exactly the integers 1..n.
ArrayShaped(t) ==
  /\ \A j \in 1 .. Len(t.p) : t.p[j][1].t = "number"
  /\ \A i \in 1 .. Len(t.p) : \E j \in 1 .. Len(t.p) : Halves(t.p[j][1]) = 2 * i

\* C7: Type<vector<T>>::To returns false for every table whose keys are not
\* exactly 1..n.
SequenceRejects ==
  (CalledTo /\ last.T.c = "vector" /\ last.exc = "none"
     /\ Slot.t = "table" /\ ~ArrayShaped(Slot)) => ~last.ret

\* C8: To with a negative index does what To with the positive index of the
\* same slot does: the same return value and the same *out.
BothIndexing ==
  (CalledTo /\ last.index < 0) =>
    \E o \in To(last.T, last.pre, AbsIndex(last.pre, last.index), last.out0) :
      o.exc = last.exc /\ o.ret = last.ret /\ o.out = last.out

\* The range of an integer type.
TypeRange(T) == IF T = TInt THEN IntRange ELSE 0 .. UINT_MAX

\* C9: Type<int>::To and Type<uint32_t>::To return true on a number only
\* when it is an integer within the type's range, and then *out is that
\* integer.
IntegerExact ==
  (CalledTo /\ last.T \in {TInt, TUint32} /\ Slot.t = "number" /\ last.ret) =>
    /\ Halves(Slot) % 2 = 0
    /\ Halves(Slot) \div 2 \in TypeRange(last.T)
    /\ last.out = Halves(Slot) \div 2

\* C10: a To that returned has left every slot of the stack as it was.
ToReadOnly ==
  (CalledTo /\ last.exc = "none") => stack = last.pre

===========================================================================
